---- MODULE Spec2Model ----
(***************************************************************************)
(* Inventory & sales ledger of the pharmacy back office.                   *)
(*                                                                         *)
(* The database (supabase/migrations/2025...sql) is modelled table by      *)
(* table; every PostgREST request of the front end is one database         *)
(* transaction and therefore one atomic action.  The sale form exists in   *)
(* two versions: src/pages/Sales.tsx, which relies on the                  *)
(* after_sale_item_insert trigger alone, and the version kept in           *)
(* src/pages/Prescriptions.tsx (lines 499-1026), which additionally reads  *)
(* and rewrites medicines.quantity from the client.  Each browser session  *)
(* (client) runs one mutation at a time; sessions interleave freely.       *)
(*                                                                         *)
(* Amounts are whole currency units; timestamps and the free-text columns  *)
(* (customer name, phone, payment method) are copied verbatim by the code  *)
(* and take no part in any rule, so they are left out of the rows.         *)
(***************************************************************************)
EXTENDS Integers, Sequences, FiniteSets, TLC

\* ------------------------------------------------------------------ bounds
\* number of sale submissions that may reach the database in one run
MaxSales == 2
\* last calendar day the clock may reach
MaxDay == 2
\* sales recorded before the run starts, in the long-history specification
HistoryLen == 9999

\* --------------------------------------------------------------- fixtures
Clients == {"c1", "c2"}
Medicines == {"m1", "m2"}
NULL == "null"

\* auth.uid() of the session
Uid(c) == IF c = "c1" THEN "u1" ELSE "u2"

\* quantities the user may type into the quantity box
ItemQuantities == {0, 3}

\* what the user of a session picks in the medicine dropdown: the cashier at
\* c1 sells the whole catalogue, the one at c2 only m1
Selection(c) == IF c = "c1" THEN Medicines ELSE {"m1"}

\* which version of the sale form a session may run (TRUE: the version with
\* the client-side stock update)
FormVersions(c) == IF c = "c1" THEN BOOLEAN ELSE {FALSE}

\* catalogue at the start of a run: medicines.quantity / selling_price
OpeningQuantity(m) == IF m = "m1" THEN 5 ELSE 3
SellingPrice(m) == IF m = "m1" THEN 50 ELSE 20

\* width of the numeric field of a sale number: LPAD(..., 4, '0')
SaleNumberWidth == 4

VARIABLES
  medicines,        \* table medicines: id -> [quantity, selling_price]
  sales,            \* table sales: sequence of rows, id = index
  sale_items,       \* table sale_items: sequence of rows
  stock_movements,  \* table stock_movements: sequence of rows
  sale_number_seq,  \* sequence sale_number_seq: last value handed out
  today,            \* NOW()::date
  medicinesQuery,   \* per client: data of useQuery(["medicines"])
  saleItems,        \* per client: cart (useState saleItems)
  status,           \* per client: saleMutation.status
  pc,               \* per client: position inside mutationFn
  variant,          \* per client: TRUE when the running form is the variant
  items,            \* per client: mutation variable `items`
  sale,             \* per client: id returned by the sales insert
  itemIdx,          \* per client: position of the variant's for loop
  medicineRecord,   \* per client: quantity read by the variant's select
  lastError,        \* per client: saleMutation.error
  form,             \* per client: field prescriptionId of the sale form
  formValues,       \* per client: mutation variable `formValues`
  prescriptions,    \* table prescriptions: sequence of rows, id = index
  medicine_categories, \* table medicine_categories: sequence of rows
  rxForm,           \* per client: field prescriptionNumber of the prescription form
  toast,            \* per client: last toast of onSubmit's own check and of
                    \* the prescription and inventory pages
  invPc,            \* per client: position inside upsertMutation.mutationFn
  values,           \* per client: mutation variable `values` of upsertMutation
  generated,        \* history: what generatePrescriptionNumber has returned so far
  editingMedicine,  \* per client: initialData of the medicine dialog (id NULL: none)
  formInput,        \* per client: field values of the medicine form
  formErrors        \* per client: fields of the medicine form the resolver rejected

dbVars == <<medicines, sales, sale_items, stock_movements, sale_number_seq, today>>
uiVars == <<medicinesQuery, saleItems>>
callVars == <<status, pc, variant, items, sale, itemIdx, medicineRecord, lastError>>
\* the prescription link of the sale form
linkVars == <<form, formValues>>
\* the tables and pages outside the sale form
\* the medicine dialog of the inventory page
dialogVars == <<editingMedicine, formInput, formErrors>>
officeVars == <<prescriptions, medicine_categories, rxForm, toast, invPc, values,
                generated, editingMedicine, formInput, formErrors>>
vars == <<medicines, sales, sale_items, stock_movements, sale_number_seq, today,
          medicinesQuery, saleItems, status, pc, variant, items, sale, itemIdx,
          medicineRecord, lastError, form, formValues, prescriptions,
          medicine_categories, rxForm, toast, invPc, values, generated,
          editingMedicine, formInput, formErrors>>

\* ---------------------------------------------------------------- helpers
Max(a, b) == IF a >= b THEN a ELSE b

RECURSIVE Digits(_)
\* n::TEXT for n >= 0, as a sequence of decimal digits
Digits(n) == IF n < 10 THEN <<n>> ELSE Append(Digits(n \div 10), n % 10)

RECURSIVE LPAD(_, _, _)
\* PostgreSQL lpad: pads on the left, and truncates on the right when the
\* string is already longer than len
LPAD(s, len, fill) ==
  IF Len(s) >= len THEN SubSeq(s, 1, len) ELSE LPAD(<<fill>> \o s, len, fill)

\* NEXTVAL('sale_number_seq')
NextVal(seq) == seq + 1

\* generate_sale_number(): 'SALE-' || TO_CHAR(NOW(),'YYYYMMDD') || '-' || LPAD(...)
generate_sale_number(day, seq) ==
  <<"SALE", day, LPAD(Digits(NextVal(seq)), SaleNumberWidth, 0)>>

RECURSIVE Total(_)
\* items.reduce((sum, item) => sum + item.quantity * item.unitPrice, 0)
Total(its) ==
  IF its = <<>> THEN 0
  ELSE Head(its).quantity * Head(its).unitPrice + Total(Tail(its))

\* saleItemsPayload: one sale_items row per cart line
SaleItemsPayload(saleId, its) ==
  [i \in 1..Len(its) |->
     [sale_id |-> saleId,
      medicine_id |-> its[i].medicineId,
      quantity |-> its[i].quantity,
      unit_price |-> its[i].unitPrice,
      total_price |-> its[i].quantity * its[i].unitPrice]]

\* update_medicine_stock() without its INSERT INTO stock_movements
update_medicine_stock_Unlogged(db, new, uid) ==
  [medicines |->
     [db.medicines EXCEPT ![new.medicine_id].quantity = @ - new.quantity],
   stock_movements |-> db.stock_movements]

\* update_medicine_stock() writing its movement with no user
update_medicine_stock_Anonymous(db, new, uid) ==
  [medicines |->
     [db.medicines EXCEPT ![new.medicine_id].quantity = @ - new.quantity],
   stock_movements |->
     Append(db.stock_movements,
            [medicine_id |-> new.medicine_id,
             movement_type |-> "out",
             quantity |-> new.quantity,
             reason |-> "Sale",
             reference_id |-> new.sale_id,
             created_by |-> NULL])]

\* update_medicine_stock(): AFTER INSERT ON sale_items FOR EACH ROW
update_medicine_stock(db, new, uid) ==
  [medicines |->
     [db.medicines EXCEPT ![new.medicine_id].quantity = @ - new.quantity],
   stock_movements |->
     Append(db.stock_movements,
            [medicine_id |-> new.medicine_id,
             movement_type |-> "out",
             quantity |-> new.quantity,
             reason |-> "Sale",
             reference_id |-> new.sale_id,
             created_by |-> uid])]

RECURSIVE InsertRows(_, _, _)
\* INSERT INTO sale_items of several rows: the trigger runs after each row
InsertRows(db, rows, uid) ==
  IF rows = <<>> THEN db
  ELSE InsertRows(update_medicine_stock(db, Head(rows), uid), Tail(rows), uid)

\* sale_number TEXT UNIQUE NOT NULL
SaleNumberTaken(n) == \E i \in 1..Len(sales) : sales[i].sale_number = n

\* cap on the sequence, so that runs are finite
SeqCap == IF sale_number_seq >= HistoryLen THEN HistoryLen + MaxSales ELSE MaxSales

\* fetchMedicines(): select id, name, selling_price, quantity
fetchMedicines == [m \in DOMAIN medicines |-> medicines[m]]

\* handleAddItem's state updater: the cart after adding q units of sel
AddItem(prev, sel, q, listed) ==
  IF \E i \in 1..Len(prev) : prev[i].medicineId = sel
  THEN LET i == CHOOSE j \in 1..Len(prev) : prev[j].medicineId = sel
           newQuantity == prev[i].quantity + q
       IN IF newQuantity > listed.quantity
          THEN prev
          ELSE [prev EXCEPT ![i].quantity = newQuantity]
  ELSE Append(prev, [medicineId |-> sel, quantity |-> q,
                     unitPrice |-> listed.selling_price])

\* handleRemoveItem's state updater
RemoveItem(prev, m) == SelectSeq(prev, LAMBDA it : it.medicineId # m)

\* what Math.floor(Math.random() * 900 + 100) returns in a run: two of 100..999
RandomDraws == {100, 999}

\* generatePrescriptionNumber(): `RX-${yyyymmdd}-${random}`; a text is the
\* sequence of its words, a blank is the word " "
generatePrescriptionNumber(day, random) == <<"RX", ToString(day), ToString(random)>>

\* what the user may type over the proposed number: a number of day 0, as it
\* is or followed by a blank
TypedNumbers ==
  {generatePrescriptionNumber(0, r) \o pad : r \in RandomDraws, pad \in {<<>>, <<" ">>}}

RECURSIVE trimStart(_)
trimStart(s) == IF s # <<>> /\ Head(s) = " " THEN trimStart(Tail(s)) ELSE s

RECURSIVE trimEnd(_)
trimEnd(s) ==
  IF s # <<>> /\ s[Len(s)] = " " THEN trimEnd(SubSeq(s, 1, Len(s) - 1)) ELSE s

\* String.prototype.trim
trim(s) == trimEnd(trimStart(s))

\* prescription_number TEXT UNIQUE NOT NULL
PrescriptionNumberTaken(rows, n) ==
  \E i \in 1..Len(rows) : rows[i].prescription_number = n

\* the insert without the UNIQUE constraint
prescriptions_insert_Unchecked(rows, row) == [error |-> NULL, rows |-> Append(rows, row)]

\* the insert as an upsert on prescription_number
prescriptions_insert_Upsert(rows, row) ==
  [error |-> NULL,
   rows |-> IF PrescriptionNumberTaken(rows, row.prescription_number)
            THEN [i \in 1..Len(rows) |->
                    IF rows[i].prescription_number = row.prescription_number
                    THEN row ELSE rows[i]]
            ELSE Append(rows, row)]

\* supabase.from("prescriptions").insert(row): the table and the error after it
prescriptions_insert(rows, row) ==
  IF PrescriptionNumberTaken(rows, row.prescription_number)
  THEN [error |-> "duplicate prescription_number", rows |-> rows]
  ELSE [error |-> NULL, rows |-> Append(rows, row)]

\* sessions at the till and in the back office, when the two pages are run
\* side by side
Tills == {"c1"}
BackOffice == {"c2"}

\* id the database gives to a medicine registered during a run
NewMedicines == {"m3"}

\* medicines the back office opens in the edit dialog
EditTargets == {"m1"}

\* what the back office types into the medicine form
FormQuantities == {8}
FormPrices == {60}
NewCategoryNames == {<<>>, <<"Antibiotics">>, <<" ", "Antibiotics">>}

\* the options of the category <Select>: "" and the listed categories
CategoryOptions == {""} \cup {ToString(i) : i \in 1..Len(medicine_categories)}

\* name TEXT NOT NULL UNIQUE
CategoryNameTaken(rows, n) == \E i \in 1..Len(rows) : rows[i].name = n

\* the insert without the UNIQUE constraint
medicine_categories_insert_Unchecked(rows, row) ==
  [error |-> NULL, rows |-> Append(rows, row)]

\* supabase.from("medicine_categories").insert(row): the table and the error
medicine_categories_insert(rows, row) ==
  IF CategoryNameTaken(rows, row.name)
  THEN [error |-> "duplicate category name", rows |-> rows]
  ELSE [error |-> NULL, rows |-> Append(rows, row)]

\* an update that carries the new selling price to the lines already sold
medicines_update_LivePrice(db, id, payload) ==
  LET reprice(it) == IF it.medicine_id = id
                     THEN [it EXCEPT !.unit_price = payload.selling_price,
                                     !.total_price = it.quantity * payload.selling_price]
                     ELSE it
  IN [db EXCEPT !.medicines = [@ EXCEPT ![id] = payload],
                !.sale_items = [i \in 1..Len(@) |-> reprice(@[i])]]

\* supabase.from("medicines").update(payload).eq("id", id): the row takes the
\* payload, and no trigger is defined on UPDATE
medicines_update(db, id, payload) ==
  [db EXCEPT !.medicines = [@ EXCEPT ![id] = payload]]

\* supabase.from("medicines").insert(payload): a new row under a new id
medicines_insert(db, id, payload) ==
  [db EXCEPT !.medicines = [m \in DOMAIN @ \cup {id} |-> IF m = id THEN payload ELSE @[m]]]

\* a delete that removes the row of the medicine
medicines_delete_Hard(db, id) ==
  [db EXCEPT !.medicines = [m \in DOMAIN @ \ {id} |-> @[m]]]

\* a delete that takes the stock movements of the medicine with it
medicines_delete_Purge(db, id) ==
  [db EXCEPT !.stock_movements = SelectSeq(@, LAMBDA mv : mv.medicine_id # id)]

\* a delete that takes the sold lines of the medicine with it
medicines_delete_Cascade(db, id) ==
  [db EXCEPT !.sale_items = SelectSeq(@, LAMBDA it : it.medicine_id # id)]

\* supabase.from("medicines").delete().eq("id", id): row level security is
\* enabled on medicines and no policy is defined FOR DELETE, so no row is
\* visible to the statement: it deletes nothing and reports no error
medicines_delete(db, id) == db

\* ------------------------------------------------------------------- Init
InitUi ==
  /\ medicinesQuery = [c \in Clients |-> <<>>]
  /\ saleItems = [c \in Clients |-> <<>>]
  /\ status = [c \in Clients |-> "idle"]
  /\ pc = [c \in Clients |-> "idle"]
  /\ variant = [c \in Clients |-> FALSE]
  /\ items = [c \in Clients |-> <<>>]
  /\ sale = [c \in Clients |-> NULL]
  /\ itemIdx = [c \in Clients |-> 0]
  /\ medicineRecord = [c \in Clients |-> NULL]
  /\ lastError = [c \in Clients |-> NULL]
  /\ form = [c \in Clients |-> ""]
  /\ formValues = [c \in Clients |-> NULL]

\* useForm defaultValues of the medicine form / form.reset without initialData
defaultValues ==
  [categoryId |-> "", newCategoryName |-> <<>>, unitPrice |-> 0, sellingPrice |-> 0,
   quantity |-> 0, reorderLevel |-> 0, expiryDate |-> <<>>]

\* editingMedicine = null
NoMedicine == [id |-> NULL]

\* the medicine dialog is closed
InitDialog ==
  /\ editingMedicine = [c \in Clients |-> NoMedicine]
  /\ formInput = [c \in Clients |-> defaultValues]
  /\ formErrors = [c \in Clients |-> {}]

\* no prescription, no category; no page of the back office has been used
InitOffice ==
  /\ prescriptions = <<>>
  /\ medicine_categories = <<>>
  /\ rxForm = [c \in Clients |-> <<>>]
  /\ toast = [c \in Clients |-> NULL]
  /\ invPc = [c \in Clients |-> "idle"]
  /\ values = [c \in Clients |-> NULL]
  /\ generated = {}
  /\ InitDialog

Init ==
  /\ medicines = [m \in Medicines |->
                    [quantity |-> OpeningQuantity(m), selling_price |-> SellingPrice(m)]]
  /\ sales = <<>>
  /\ sale_items = <<>>
  /\ stock_movements = <<>>
  /\ sale_number_seq = 0
  /\ today = 0
  /\ InitUi
  /\ InitOffice

\* a store with a long history: HistoryLen one-line sales of m1 recorded on
\* day 0, which left m1 out of stock; m2 has its 3 units; today is day 1
HistorySale(i) ==
  [sale_number |-> generate_sale_number(0, i - 1), total_amount |-> 3 * SellingPrice("m1"),
   served_by |-> "u1", prescription_id |-> NULL]

HistoryItem(i) == SaleItemsPayload(i, <<[medicineId |-> "m1", quantity |-> 3,
                                        unitPrice |-> SellingPrice("m1")]>>)[1]

HistoryMovement(i) ==
  [medicine_id |-> "m1", movement_type |-> "out", quantity |-> 3, reason |-> "Sale",
   reference_id |-> i, created_by |-> "u1"]

InitNumbers ==
  /\ medicines = [m \in Medicines |->
                    [quantity |-> IF m = "m1" THEN 0 ELSE OpeningQuantity(m),
                     selling_price |-> SellingPrice(m)]]
  /\ sales = [i \in 1..HistoryLen |-> HistorySale(i)]
  /\ sale_items = [i \in 1..HistoryLen |-> HistoryItem(i)]
  /\ stock_movements = [i \in 1..HistoryLen |-> HistoryMovement(i)]
  /\ sale_number_seq = HistoryLen
  /\ today = 1
  /\ InitUi
  /\ InitOffice

\* the store when nothing has been sold yet and m1 is down to 3 units
InitLedger ==
  /\ medicines = [m \in Medicines |->
                    [quantity |-> IF m = "m1" THEN 3 ELSE OpeningQuantity(m),
                     selling_price |-> SellingPrice(m)]]
  /\ sales = <<>>
  /\ sale_items = <<>>
  /\ stock_movements = <<>>
  /\ sale_number_seq = 0
  /\ today = 0
  /\ InitUi
  /\ InitOffice

\* a store in which one prescription was recorded on day 0 and m2 is sold
\* out; nothing has been sold
InitLink ==
  /\ medicines = [m \in Medicines |->
                    [quantity |-> IF m = "m2" THEN 0 ELSE OpeningQuantity(m),
                     selling_price |-> SellingPrice(m)]]
  /\ sales = <<>>
  /\ sale_items = <<>>
  /\ stock_movements = <<>>
  /\ sale_number_seq = 0
  /\ today = 0
  /\ InitUi
  /\ prescriptions =
       <<[prescription_number |-> generatePrescriptionNumber(0, 100), created_by |-> "u1"]>>
  /\ medicine_categories = <<>>
  /\ rxForm = [c \in Clients |-> <<>>]
  /\ toast = [c \in Clients |-> NULL]
  /\ invPc = [c \in Clients |-> "idle"]
  /\ values = [c \in Clients |-> NULL]
  /\ generated = {generatePrescriptionNumber(0, 100)}
  /\ InitDialog

\* ---------------------------------------------------------------- actions
\* useQuery(["medicines"]) (re)fetches the catalogue
Refetch(c) ==
  /\ medicinesQuery' = [medicinesQuery EXCEPT ![c] = fetchMedicines]
  /\ UNCHANGED <<dbVars, saleItems, callVars, linkVars, officeVars>>

\* handleAddItem with selectedMedicineId = m and itemQuantity = q
HandleAddItem(c, m, q) ==
  /\ m \in DOMAIN medicinesQuery[c]
  /\ m \in Selection(c)
  /\ q > 0
  /\ q <= medicinesQuery[c][m].quantity
  /\ saleItems' = [saleItems EXCEPT ![c] = AddItem(@, m, q, medicinesQuery[c][m])]
  /\ UNCHANGED <<dbVars, medicinesQuery, callVars, linkVars, officeVars>>

HandleRemoveItem(c, m) ==
  /\ \E i \in 1..Len(saleItems[c]) : saleItems[c][i].medicineId = m
  /\ saleItems' = [saleItems EXCEPT ![c] = RemoveItem(@, m)]
  /\ UNCHANGED <<dbVars, medicinesQuery, callVars, linkVars, officeVars>>

\* mutationFn returns or throws: its parameters and locals go out of scope
Return(c) ==
  /\ pc' = [pc EXCEPT ![c] = "idle"]
  /\ variant' = [variant EXCEPT ![c] = FALSE]
  /\ items' = [items EXCEPT ![c] = <<>>]
  /\ sale' = [sale EXCEPT ![c] = NULL]
  /\ itemIdx' = [itemIdx EXCEPT ![c] = 0]
  /\ medicineRecord' = [medicineRecord EXCEPT ![c] = NULL]
  /\ formValues' = [formValues EXCEPT ![c] = NULL]

\* an onError that also clears the cart and the form
OnError_Reset(c, err) ==
  /\ status' = [status EXCEPT ![c] = "error"]
  /\ lastError' = [lastError EXCEPT ![c] = err]
  /\ saleItems' = [saleItems EXCEPT ![c] = <<>>]
  /\ form' = [form EXCEPT ![c] = ""]
  /\ Return(c)

\* throw err; saleMutation.onError only reports
OnError(c, err) ==
  /\ status' = [status EXCEPT ![c] = "error"]
  /\ lastError' = [lastError EXCEPT ![c] = err]
  /\ UNCHANGED <<saleItems, form>>
  /\ Return(c)

\* saleMutation.onSuccess: resets the form and empties the cart
OnSuccess(c) ==
  /\ status' = [status EXCEPT ![c] = "success"]
  /\ saleItems' = [saleItems EXCEPT ![c] = <<>>]
  /\ form' = [form EXCEPT ![c] = ""]
  /\ UNCHANGED lastError
  /\ Return(c)

\* onSubmit without its check of the cart and without mutationFn's
EmptySubmit_Unchecked(c) ==
  /\ status[c] # "pending"
  /\ saleItems[c] = <<>>
  /\ sale_number_seq + Cardinality({d \in Clients : pc[d] = "insertSale"}) < SeqCap
  /\ status' = [status EXCEPT ![c] = "pending"]
  /\ pc' = [pc EXCEPT ![c] = "insertSale"]
  /\ formValues' = [formValues EXCEPT ![c] = [prescriptionId |-> form[c]]]
  /\ UNCHANGED <<dbVars, uiVars, variant, items, sale, itemIdx, medicineRecord,
                 lastError, form, officeVars>>

\* onSubmit with an empty cart: a toast, and saleMutation.mutate is not called
EmptySubmit(c) ==
  /\ status[c] # "pending"
  /\ saleItems[c] = <<>>
  /\ toast' = [toast EXCEPT ![c] = "Add at least one medicine to the sale"]
  /\ UNCHANGED <<dbVars, uiVars, callVars, linkVars, prescriptions,
                 medicine_categories, rxForm, invPc, values, generated, dialogVars>>

\* the options of the prescription <Select>: "" and the listed prescriptions;
\* prescriptions are never removed, so a listed id is the id of a stored row
PrescriptionOptions == {""} \cup {ToString(p) : p \in 1..Len(prescriptions)}

\* the user picks an option of the prescription field of the sale form
SelectPrescription(c, id) ==
  /\ id \in PrescriptionOptions
  /\ form[c] # id
  /\ form' = [form EXCEPT ![c] = id]
  /\ UNCHANGED <<dbVars, uiVars, callVars, formValues, officeVars>>

\* onSubmit, then mutationFn up to its first database request:
\* the empty-cart checks and supabase.auth.getUser()
OnSubmit(c, v) ==
  /\ status[c] # "pending"
  /\ saleItems[c] # <<>>
  /\ sale_number_seq + Cardinality({d \in Clients : pc[d] = "insertSale"}) < SeqCap
  /\ \/ /\ status' = [status EXCEPT ![c] = "pending"]
        /\ pc' = [pc EXCEPT ![c] = "insertSale"]
        /\ variant' = [variant EXCEPT ![c] = v]
        /\ items' = [items EXCEPT ![c] = saleItems[c]]
        /\ lastError' = [lastError EXCEPT ![c] = NULL]
        /\ formValues' = [formValues EXCEPT ![c] = [prescriptionId |-> form[c]]]
        /\ UNCHANGED <<saleItems, sale, itemIdx, medicineRecord, form>>
     \/ /\ v = FALSE
        /\ OnError(c, "request failed")
  /\ UNCHANGED <<dbVars, medicinesQuery, officeVars>>

\* supabase.from("sales").insert({...}).select("id").single()
InsertSale(c) ==
  /\ pc[c] = "insertSale"
  /\ \/ \* the request fails before anything is written
        /\ OnError(c, "request failed")
        /\ UNCHANGED dbVars
     \/ LET number == generate_sale_number(today, sale_number_seq)
        IN /\ sale_number_seq' = NextVal(sale_number_seq)
           /\ IF SaleNumberTaken(number)
              THEN /\ OnError(c, "duplicate sale_number")
                   /\ UNCHANGED sales
              ELSE /\ sales' = Append(sales,
                                  [sale_number |-> number,
                                   total_amount |-> Total(items[c]),
                                   served_by |-> Uid(c),
                                   prescription_id |->
                                     IF formValues[c].prescriptionId # ""
                                     THEN formValues[c].prescriptionId
                                     ELSE NULL])
                   /\ sale' = [sale EXCEPT ![c] = Len(sales) + 1]
                   /\ pc' = [pc EXCEPT ![c] = "insertItems"]
                   /\ UNCHANGED <<status, lastError, saleItems, variant, items,
                                  itemIdx, medicineRecord, linkVars>>
           /\ UNCHANGED <<medicines, sale_items, stock_movements, today>>
  /\ UNCHANGED <<medicinesQuery, officeVars>>

\* supabase.from("sale_items").insert(saleItemsPayload)
InsertSaleItems(c) ==
  /\ pc[c] = "insertItems"
  /\ \/ /\ OnError(c, "request failed")
        /\ UNCHANGED dbVars
     \/ LET rows == SaleItemsPayload(sale[c], items[c])
            db == InsertRows([medicines |-> medicines,
                              stock_movements |-> stock_movements], rows, Uid(c))
        IN /\ sale_items' = sale_items \o rows
           /\ medicines' = db.medicines
           /\ stock_movements' = db.stock_movements
           /\ UNCHANGED <<sales, sale_number_seq, today>>
           /\ IF variant[c]
              THEN /\ pc' = [pc EXCEPT ![c] = "fetch"]
                   /\ itemIdx' = [itemIdx EXCEPT ![c] = 1]
                   /\ UNCHANGED <<status, lastError, saleItems, variant, items,
                                  sale, medicineRecord, linkVars>>
              ELSE OnSuccess(c)
  /\ UNCHANGED <<medicinesQuery, officeVars>>

\* variant: supabase.from("medicines").select("quantity").eq("id", item.medicineId)
FetchQuantity(c) ==
  /\ pc[c] = "fetch"
  /\ \/ OnError(c, "request failed")
     \/ /\ medicineRecord' =
             [medicineRecord EXCEPT ![c] = medicines[items[c][itemIdx[c]].medicineId].quantity]
        /\ pc' = [pc EXCEPT ![c] = "update"]
        /\ UNCHANGED <<status, lastError, saleItems, variant, items, sale, itemIdx,
                       linkVars>>
  /\ UNCHANGED <<dbVars, medicinesQuery, officeVars>>

\* variant: supabase.from("medicines").update({quantity: nextQuantity})
UpdateQuantity(c) ==
  /\ pc[c] = "update"
  /\ \/ /\ OnError(c, "request failed")
        /\ UNCHANGED dbVars
     \/ LET item == items[c][itemIdx[c]]
            nextQuantity == Max(0, medicineRecord[c] - item.quantity)
        IN /\ medicines' = [medicines EXCEPT ![item.medicineId].quantity = nextQuantity]
           /\ UNCHANGED <<sales, sale_items, stock_movements, sale_number_seq, today>>
           /\ IF itemIdx[c] < Len(items[c])
              THEN /\ itemIdx' = [itemIdx EXCEPT ![c] = @ + 1]
                   /\ pc' = [pc EXCEPT ![c] = "fetch"]
                   /\ UNCHANGED <<status, lastError, saleItems, variant, items,
                                  sale, medicineRecord, linkVars>>
              ELSE OnSuccess(c)
  /\ UNCHANGED <<medicinesQuery, officeVars>>

\* the calendar day changes
NextDay ==
  /\ today < MaxDay
  /\ today' = today + 1
  /\ UNCHANGED <<medicines, sales, sale_items, stock_movements, sale_number_seq,
                 uiVars, callVars, linkVars, officeVars>>

\* ------------------------------------------------- prescriptions page
\* the form takes the number the generator returned
Propose(c, number) ==
  /\ rxForm' = [rxForm EXCEPT ![c] = number]
  /\ generated' = generated \cup {number}

\* useEffect after mount: an empty number field is filled with a generated one
RxMount(c, random) ==
  /\ rxForm[c] = <<>>
  /\ Propose(c, generatePrescriptionNumber(today, random))
  /\ UNCHANGED <<dbVars, uiVars, callVars, linkVars, prescriptions,
                 medicine_categories, toast, invPc, values, dialogVars>>

\* the user overwrites the proposed number
RxType(c, text) ==
  /\ rxForm[c] # <<>>
  /\ rxForm' = [rxForm EXCEPT ![c] = text]
  /\ UNCHANGED <<dbVars, uiVars, callVars, linkVars, prescriptions,
                 medicine_categories, toast, invPc, values, generated, dialogVars>>

\* onSubmit -> createPrescriptionMutation: getUser, the insert, then onSuccess
\* (which resets the form to a newly generated number) or onError
CreatePrescription(c, random) ==
  /\ rxForm[c] # <<>>
  /\ \/ /\ toast' = [toast EXCEPT ![c] = "request failed"]
        /\ UNCHANGED <<prescriptions, rxForm, generated>>
     \/ LET done == prescriptions_insert(prescriptions,
                                         [prescription_number |-> trim(rxForm[c]),
                                          created_by |-> Uid(c)])
        IN /\ prescriptions' = done.rows
           /\ IF done.error # NULL
              THEN /\ toast' = [toast EXCEPT ![c] = done.error]
                   /\ UNCHANGED <<rxForm, generated>>
              ELSE /\ toast' = [toast EXCEPT ![c] = "Prescription saved"]
                   /\ Propose(c, generatePrescriptionNumber(today, random))
  /\ UNCHANGED <<dbVars, uiVars, callVars, linkVars, medicine_categories, invPc, values,
                 dialogVars>>

\* ------------------------------------------------------- inventory page
\* columns of a medicines row that the model does not keep in the table, as
\* the edit dialog receives them in initialData
storedColumns == [unit_price |-> 10, reorder_level |-> 1, expiry_date |-> <<"2027-01-31">>]

\* what the back office types into a field of the medicine form
FieldInputs ==
  {<<"unitPrice", -1>>, <<"sellingPrice", -1>>, <<"sellingPrice", 60>>,
   <<"quantity", -1>>, <<"reorderLevel", -1>>, <<"expiryDate", <<>> >>,
   <<"expiryDate", <<"2027-01-31">> >>, <<"newCategoryName", <<"Antibiotics">> >>}

\* the resolver of the form, without its checks
medicineFormSchema_Unchecked(input) == {}

\* zodResolver(medicineFormSchema): the fields in error.  name and
\* batchNumber, which the model does not keep, are taken as filled in
medicineFormSchema(input) ==
  {f \in {"unitPrice", "sellingPrice", "quantity", "reorderLevel"} : input[f] < 0}
  \cup (IF Len(input.expiryDate) < 1 THEN {"expiryDate"} ELSE {})

\* the effect of the dialog: form.reset from initialData, or to the defaults
resetValues(initialData) ==
  IF initialData.id = NULL THEN defaultValues
  ELSE [categoryId |-> "", newCategoryName |-> <<>>,
        unitPrice |-> storedColumns.unit_price,
        sellingPrice |-> initialData.selling_price,
        quantity |-> initialData.quantity,
        reorderLevel |-> storedColumns.reorder_level,
        expiryDate |-> storedColumns.expiry_date]

\* the tables a request of the inventory page can reach
Database ==
  [medicines |-> medicines, sales |-> sales, sale_items |-> sale_items,
   stock_movements |-> stock_movements]

Commit(db) ==
  /\ medicines' = db.medicines
  /\ sales' = db.sales
  /\ sale_items' = db.sale_items
  /\ stock_movements' = db.stock_movements

\* upsertMutation's mutationFn returns or throws, and onSuccess / onError
\* shows a toast
InvReturn(c, message) ==
  /\ toast' = [toast EXCEPT ![c] = message]
  /\ invPc' = [invPc EXCEPT ![c] = "idle"]
  /\ values' = [values EXCEPT ![c] = NULL]

\* onCompleted: the dialog closes, editingMedicine is cleared and the effect of
\* the dialog resets the form to its defaults
onCompleted(c) ==
  /\ editingMedicine' = [editingMedicine EXCEPT ![c] = NoMedicine]
  /\ formInput' = [formInput EXCEPT ![c] = defaultValues]

\* onSubmit of the medicine form -> upsertMutation.mutate(values), up to the
\* first request; id is initialData.id, NULL in the dialog for a new medicine
SubmitMedicine(c, id, categoryId, newCategoryName, quantity, sellingPrice) ==
  /\ invPc[c] = "idle"
  /\ id # NULL => id \in DOMAIN medicines
  /\ id = NULL => NewMedicines \ DOMAIN medicines # {}
  /\ categoryId \in CategoryOptions
  /\ values' = [values EXCEPT ![c] =
                  [id |-> id, categoryId |-> categoryId,
                   newCategoryName |-> newCategoryName,
                   quantity |-> quantity, sellingPrice |-> sellingPrice]]
  /\ invPc' = [invPc EXCEPT ![c] =
                 IF categoryId = "" /\ trim(newCategoryName) # <<>>
                 THEN "insertCategory" ELSE "upsert"]
  /\ formErrors' = [formErrors EXCEPT ![c] = {}]
  /\ UNCHANGED <<dbVars, uiVars, callVars, linkVars, prescriptions,
                 medicine_categories, rxForm, toast, generated, editingMedicine,
                 formInput>>

\* the edit button of a listed medicine (setEditingMedicine(medicine)), or
\* the button for a new medicine (target = NULL); the list is read at the click
OpenDialog(c, target) ==
  /\ invPc[c] = "idle"
  /\ target # NULL => target \in DOMAIN medicines
  /\ LET initialData ==
           IF target = NULL THEN NoMedicine
           ELSE [id |-> target, quantity |-> medicines[target].quantity,
                 selling_price |-> medicines[target].selling_price]
     IN /\ editingMedicine' = [editingMedicine EXCEPT ![c] = initialData]
        /\ formInput' = [formInput EXCEPT ![c] = resetValues(initialData)]
  /\ formErrors' = [formErrors EXCEPT ![c] = {}]
  /\ UNCHANGED <<dbVars, uiVars, callVars, linkVars, prescriptions,
                 medicine_categories, rxForm, toast, invPc, values, generated>>

\* the user types a value into a field of the medicine form
TypeField(c, field, value) ==
  /\ invPc[c] = "idle"
  /\ formInput[c][field] # value
  /\ formInput' = [formInput EXCEPT ![c][field] = value]
  /\ UNCHANGED <<dbVars, uiVars, callVars, linkVars, prescriptions,
                 medicine_categories, rxForm, toast, invPc, values, generated,
                 editingMedicine, formErrors>>

\* form.handleSubmit(onSubmit): the resolver runs first; onSubmit, and with
\* it upsertMutation.mutate, is called only when no field is in error
HandleSubmit(c) ==
  LET input == formInput[c]
      errors == medicineFormSchema(input)
  IN IF errors = {}
     THEN SubmitMedicine(c, editingMedicine[c].id, input.categoryId,
                         input.newCategoryName, input.quantity, input.sellingPrice)
     ELSE /\ invPc[c] = "idle"
          /\ formErrors' = [formErrors EXCEPT ![c] = errors]
          /\ UNCHANGED <<dbVars, uiVars, callVars, linkVars, prescriptions,
                         medicine_categories, rxForm, toast, invPc, values, generated,
                         editingMedicine, formInput>>

\* supabase.from("medicine_categories").insert({name}).select("id").single()
InsertCategory(c) ==
  /\ invPc[c] = "insertCategory"
  /\ \/ /\ InvReturn(c, "request failed")
        /\ UNCHANGED medicine_categories
     \/ LET done == medicine_categories_insert(
                       medicine_categories, [name |-> trim(values[c].newCategoryName)])
        IN /\ medicine_categories' = done.rows
           /\ IF done.error # NULL
              THEN InvReturn(c, done.error)
              ELSE /\ invPc' = [invPc EXCEPT ![c] = "upsert"]
                   /\ UNCHANGED <<toast, values>>
  /\ UNCHANGED <<dbVars, uiVars, callVars, linkVars, prescriptions, rxForm, generated,
                 dialogVars>>

\* supabase.from("medicines").update(payload).eq("id", initialData.id), or
\* .insert(payload) in the dialog for a new medicine
UpsertMedicine(c) ==
  /\ invPc[c] = "upsert"
  /\ \/ /\ InvReturn(c, "request failed")
        /\ UNCHANGED <<medicines, sales, sale_items, stock_movements, editingMedicine,
                       formInput>>
     \/ LET payload == [quantity |-> values[c].quantity,
                        selling_price |-> values[c].sellingPrice]
        IN IF values[c].id # NULL
           THEN /\ Commit(medicines_update(Database, values[c].id, payload))
                /\ InvReturn(c, "Medicine updated")
                /\ onCompleted(c)
           ELSE \E id \in NewMedicines \ DOMAIN medicines :
                   /\ Commit(medicines_insert(Database, id, payload))
                   /\ InvReturn(c, "Medicine added")
                   /\ onCompleted(c)
  /\ UNCHANGED <<sale_number_seq, today, uiVars, callVars, linkVars, prescriptions,
                 medicine_categories, rxForm, generated, formErrors>>

\* deleteMutation: supabase.from("medicines").delete().eq("id", id)
DeleteMedicine(c, id) ==
  /\ id \in DOMAIN medicines
  /\ \/ /\ toast' = [toast EXCEPT ![c] = "request failed"]
        /\ UNCHANGED <<medicines, sales, sale_items, stock_movements>>
     \/ /\ Commit(medicines_delete(Database, id))
        /\ toast' = [toast EXCEPT ![c] = "Medicine removed"]
  /\ UNCHANGED <<sale_number_seq, today, uiVars, callVars, linkVars, prescriptions,
                 medicine_categories, rxForm, invPc, values, generated, dialogVars>>

Next ==
  \/ \E c \in Clients : Refetch(c)
  \/ \E c \in Clients, m \in Medicines, q \in ItemQuantities : HandleAddItem(c, m, q)
  \/ \E c \in Clients, m \in Medicines : HandleRemoveItem(c, m)
  \/ \E c \in Clients : \E v \in FormVersions(c) : OnSubmit(c, v)
  \/ \E c \in Clients : InsertSale(c)
  \/ \E c \in Clients : InsertSaleItems(c)
  \/ \E c \in Clients : FetchQuantity(c)
  \/ \E c \in Clients : UpdateQuantity(c)

Spec == Init /\ [][Next]_vars

\* the same store over several days, starting from the long history
NextNumbers == Next \/ NextDay

SpecNumbers == InitNumbers /\ [][NextNumbers]_vars

\* both versions of the sale form, from the smaller stock, with carts that
\* are only filled
NextLedger ==
  \/ \E c \in Clients : Refetch(c)
  \/ \E c \in Clients, m \in Medicines, q \in ItemQuantities : HandleAddItem(c, m, q)
  \/ \E c \in Clients : \E v \in FormVersions(c) : OnSubmit(c, v)
  \/ \E c \in Clients : InsertSale(c)
  \/ \E c \in Clients : InsertSaleItems(c)
  \/ \E c \in Clients : FetchQuantity(c)
  \/ \E c \in Clients : UpdateQuantity(c)

SpecLedger == InitLedger /\ [][NextLedger]_vars

\* the prescriptions page alone, in both sessions
NextRx ==
  \/ \E c \in Clients, r \in RandomDraws : RxMount(c, r)
  \/ \E c \in Clients, t \in TypedNumbers : RxType(c, t)
  \/ \E c \in Clients, r \in RandomDraws : CreatePrescription(c, r)

SpecRx == Init /\ [][NextRx]_vars

\* the sale form of Sales.tsx with its prescription field, in both sessions
NextLink ==
  \/ \E c \in Clients : Refetch(c)
  \/ \E c \in Clients, m \in Medicines, q \in ItemQuantities : HandleAddItem(c, m, q)
  \/ \E c \in Clients, id \in PrescriptionOptions : SelectPrescription(c, id)
  \/ \E c \in Clients : EmptySubmit(c)
  \/ \E c \in Clients : OnSubmit(c, FALSE)
  \/ \E c \in Clients : InsertSale(c)
  \/ \E c \in Clients : InsertSaleItems(c)

SpecLink == InitLink /\ [][NextLink]_vars

\* the till (Sales.tsx) and the inventory page side by side
NextInventory ==
  \/ \E c \in Tills : Refetch(c)
  \/ \E c \in Tills, m \in Medicines, q \in ItemQuantities : HandleAddItem(c, m, q)
  \/ \E c \in Tills : OnSubmit(c, FALSE)
  \/ \E c \in Tills : InsertSale(c)
  \/ \E c \in Tills : InsertSaleItems(c)
  \/ \E c \in BackOffice, id \in EditTargets \cup {NULL}, cat \in {"", "1"},
        n \in NewCategoryNames, q \in FormQuantities, p \in FormPrices :
        SubmitMedicine(c, id, cat, n, q, p)
  \/ \E c \in BackOffice : InsertCategory(c)
  \/ \E c \in BackOffice : UpsertMedicine(c)
  \/ \E c \in BackOffice, id \in EditTargets : DeleteMedicine(c, id)

SpecInventory == InitLink /\ [][NextInventory]_vars

\* the medicine dialog of the inventory page, filled in field by field
NextForm ==
  \/ \E c \in BackOffice, target \in EditTargets \cup {NULL} : OpenDialog(c, target)
  \/ \E c \in BackOffice, in \in FieldInputs : TypeField(c, in[1], in[2])
  \/ \E c \in BackOffice : HandleSubmit(c)
  \/ \E c \in BackOffice : InsertCategory(c)
  \/ \E c \in BackOffice : UpsertMedicine(c)

SpecForm == Init /\ [][NextForm]_vars

\* the till next to an edit dialog in which only the selling price is changed
NextEdit ==
  \/ \E c \in Tills : Refetch(c)
  \/ \E c \in Tills, m \in Medicines, q \in ItemQuantities : HandleAddItem(c, m, q)
  \/ \E c \in Tills : OnSubmit(c, FALSE)
  \/ \E c \in Tills : InsertSale(c)
  \/ \E c \in Tills : InsertSaleItems(c)
  \/ \E c \in BackOffice, target \in EditTargets : OpenDialog(c, target)
  \/ \E c \in BackOffice, p \in FormPrices : TypeField(c, "sellingPrice", p)
  \/ \E c \in BackOffice : HandleSubmit(c)
  \/ \E c \in BackOffice : UpsertMedicine(c)

SpecEdit == InitLink /\ [][NextEdit]_vars

\* two signed-in users: both sell at the till, one also writes prescriptions
NextIdentity ==
  \/ \E c \in Clients : Refetch(c)
  \/ \E c \in Clients, m \in Medicines, q \in ItemQuantities : HandleAddItem(c, m, q)
  \/ \E c \in Clients : OnSubmit(c, FALSE)
  \/ \E c \in Clients : InsertSale(c)
  \/ \E c \in Clients : InsertSaleItems(c)
  \/ \E c \in BackOffice, r \in RandomDraws : RxMount(c, r)
  \/ \E c \in BackOffice, r \in RandomDraws : CreatePrescription(c, r)

SpecIdentity == InitLink /\ [][NextIdentity]_vars

\* ------------------------------------------------------------ the cart alone
\* In SpecCart the quantities of the cart are counted in halves of a unit,
\* so that the quantity box can hold 0.5.
Halves == 2

\* what is typed into the quantity box, in halves: nothing, 0.5, 3 and -1
TypedQuantities == {0, 1, 6, -2}

\* setItemQuantity(Number(event.target.value) || 1)
setItemQuantity(value) == IF value = 0 THEN 1 * Halves ELSE value

\* handleAddItem with selectedMedicineId = m after value was typed in the box
HandleAddItemTyped(c, m, value) ==
  LET itemQuantity == setItemQuantity(value)
      selectedMedicine == [medicinesQuery[c][m] EXCEPT !.quantity = @ * Halves]
  IN /\ m \in DOMAIN medicinesQuery[c]
     /\ m \in Selection(c)
     /\ ~(itemQuantity <= 0)
     /\ ~(itemQuantity > selectedMedicine.quantity)
     /\ saleItems' = [saleItems EXCEPT ![c] = AddItem(@, m, itemQuantity, selectedMedicine)]
     /\ UNCHANGED <<dbVars, medicinesQuery, callVars, linkVars, officeVars>>

NextCart ==
  \/ \E c \in Clients : Refetch(c)
  \/ \E c \in Clients, m \in Medicines, v \in TypedQuantities : HandleAddItemTyped(c, m, v)
  \/ \E c \in Clients, m \in Medicines : HandleRemoveItem(c, m)

SpecCart == Init /\ [][NextCart]_vars

\* ------------------------------------------------------------- properties
\* a line of the running call asks for more than is on hand right now
Insufficient(c) ==
  \E i \in 1..Len(items[c]) :
     items[c][i].quantity > medicines[items[c][i].medicineId].quantity

RECURSIVE LinesTotal(_, _)
\* sum of quantity * unit_price over the sale_items rows of sale s
LinesTotal(rows, s) ==
  IF rows = <<>> THEN 0
  ELSE (IF Head(rows).sale_id = s THEN Head(rows).quantity * Head(rows).unit_price ELSE 0)
       + LinesTotal(Tail(rows), s)

RECURSIVE Sold(_, _)
\* units of medicine m on the sale_items rows
Sold(rows, m) ==
  IF rows = <<>> THEN 0
  ELSE (IF Head(rows).medicine_id = m THEN Head(rows).quantity ELSE 0)
       + Sold(Tail(rows), m)

\* the stock_movements rows written for a sale_items row
MovementsOf(it) ==
  {j \in 1..Len(stock_movements) :
     /\ stock_movements[j].reference_id = it.sale_id
     /\ stock_movements[j].medicine_id = it.medicine_id}

\* C1: when the database processes the line items of a sale and one of them
\* asks for more than is on hand, no row of the sale is in sales, sale_items
\* or stock_movements afterwards and no medicine quantity has changed.
C1_AtomicOnStockFailure ==
  [][\A c \in Clients :
       (pc[c] = "insertItems" /\ pc'[c] # "insertItems" /\ Insufficient(c)
        /\ lastError'[c] # "request failed")
       => /\ sale_items' = sale_items
          /\ stock_movements' = stock_movements
          /\ medicines' = medicines
          /\ sale[c] \notin 1..Len(sales')]_vars

\* C2: every medicine has quantity >= 0 in every reachable state.
C2_QuantityNonNegative == \A m \in Medicines : medicines[m].quantity >= 0

\* C3: with 5 units of m1 on hand, two sessions that each sell 3 units of m1
\* never both succeed, and the quantity never becomes -1.
C3_OneOfTwoConcurrentSales ==
  /\ ~ /\ OpeningQuantity("m1") = 5
       /\ \A c \in Clients : status[c] = "success"
       /\ Len(sale_items) = 2
       /\ \A i \in 1..Len(sale_items) :
            sale_items[i].medicine_id = "m1" /\ sale_items[i].quantity = 3
  /\ medicines["m1"].quantity # -1

\* C4: every sales row's total_amount is the sum of quantity * unit_price of
\* its sale_items rows.
C4_TotalMatchesLines ==
  \A s \in 1..Len(sales) : sales[s].total_amount = LinesTotal(sale_items, s)

\* C5: a recordSale that fails leaves no sales header and no sale_items row of
\* its own behind.
C5_FailedSaleLeavesNothing ==
  [][\A c \in Clients :
       (status[c] = "pending" /\ status'[c] = "error")
       => /\ sale[c] \notin 1..Len(sales')
          /\ \A i \in 1..Len(sale_items') : sale_items'[i].sale_id # sale[c]]_vars

\* C6: every sale_items row that is committed has a quantity > 0 that does not
\* exceed the on-hand quantity of its medicine at the moment of commit.
C6_StockCheckedAtCommit ==
  [][\A i \in (Len(sale_items) + 1)..Len(sale_items') :
       /\ sale_items'[i].quantity > 0
       /\ sale_items'[i].quantity <= medicines[sale_items'[i].medicine_id].quantity]_vars

\* C7: when a recordSale succeeds, every medicine's quantity is its opening
\* quantity minus the units on sale_items rows: each sold unit is deducted
\* exactly once, in both versions of the sale form.
C7_DeductedExactlyOnce ==
  [][\A c \in Clients :
       (status[c] = "pending" /\ status'[c] = "success")
       => \A m \in Medicines :
            medicines'[m].quantity = OpeningQuantity(m) - Sold(sale_items', m)]_vars

C9_InsufficientStockFails ==
  [][\A c \in Clients :
       (pc[c] = "insertItems" /\ pc'[c] # "insertItems" /\ Insufficient(c))
       => status'[c] = "error"]_vars

\* C10: every insertion into sales that the database processes adds a row
\* whose sale number no earlier row carries; none is rejected because the
\* generated number is already taken.
C10_SaleNumbersNeverCollide ==
  [][\A c \in Clients :
       (pc[c] = "insertSale" /\ pc'[c] # "insertSale"
        /\ lastError'[c] # "request failed")
       => /\ Len(sales') = Len(sales) + 1
          /\ ~SaleNumberTaken(sales'[Len(sales')].sale_number)
          /\ lastError'[c] # "duplicate sale_number"]_vars

\* a step in which session c calls generatePrescriptionNumber: the prefill
\* after mount, or the form reset after a prescription of c was stored
GeneratorCall(c) ==
  \/ rxForm[c] = <<>> /\ rxForm'[c] # <<>>
  \/ /\ Len(prescriptions') > Len(prescriptions)
     /\ prescriptions'[Len(prescriptions')].created_by = Uid(c)

\* C11: no two calls of the prescription-number generator return the same
\* number: whenever a form takes a newly generated number, the generator has
\* not returned that number before.
C11_GeneratedNumbersUnique ==
  [][\A c \in Clients : GeneratorCall(c) => rxForm'[c] \notin generated]_vars

\* C12: no two stored prescriptions share a prescription_number; an insert
\* whose number is already stored is rejected, and the rejected call leaves
\* the prescriptions table as it was.
C12_DuplicateNumberRejected ==
  [][/\ \A i, k \in 1..Len(prescriptions') :
          prescriptions'[i].prescription_number = prescriptions'[k].prescription_number
          => i = k
     /\ \A c \in Clients :
          (toast'[c] # toast[c] /\ toast'[c] = "duplicate prescription_number")
          => /\ prescriptions' = prescriptions
             /\ PrescriptionNumberTaken(prescriptions, trim(rxForm[c]))
     /\ \A c \in Clients :
          (toast'[c] # toast[c] /\ toast'[c] = "Prescription saved")
          => ~PrescriptionNumberTaken(prescriptions, trim(rxForm[c]))]_vars

\* a prescription is stored and a second one with its number, typed with a
\* trailing blank in the other session, has been rejected
C12_Witness ==
  \E c, d \in Clients :
     /\ c # d
     /\ toast[c] = "duplicate prescription_number"
     /\ rxForm[c] # trim(rxForm[c])
     /\ \E i \in 1..Len(prescriptions) :
          /\ prescriptions[i].prescription_number = trim(rxForm[c])
          /\ prescriptions[i].created_by = Uid(d)

\* C13: creating a category whose name is already stored fails with the
\* duplicate-name error and leaves the table as it was, also when the name
\* comes from the medicine form: no two rows of medicine_categories share a
\* name, and the medicine of the failed form is not saved.
C13_DuplicateCategoryRejected ==
  [][/\ \A i, k \in 1..Len(medicine_categories') :
          medicine_categories'[i].name = medicine_categories'[k].name => i = k
     /\ \A c \in Clients :
          (invPc[c] = "insertCategory" /\ invPc'[c] # "insertCategory"
           /\ CategoryNameTaken(medicine_categories, trim(values[c].newCategoryName))
           /\ toast'[c] # "request failed")
          => /\ toast'[c] = "duplicate category name"
             /\ invPc'[c] = "idle"
             /\ medicine_categories' = medicine_categories
             /\ medicines' = medicines]_vars

\* the category Antibiotics was created once, and a second creation, typed
\* with a leading blank, has failed: one row
C13_Witness ==
  /\ Len(medicine_categories) = 1
  /\ medicine_categories[1].name = <<"Antibiotics">>
  /\ \E c \in Clients : toast[c] = "duplicate category name"

C15_EmptyCartPersistsNothing ==
  [][\A c \in Clients :
       (saleItems[c] = <<>> /\ status[c] # "pending"
        /\ (toast'[c] # toast[c] \/ pc'[c] # pc[c] \/ status'[c] # status[c]))
       => /\ toast'[c] = "Add at least one medicine to the sale"
          /\ pc'[c] = "idle"
          /\ status'[c] = status[c]
          /\ UNCHANGED <<medicines, sales, sale_items, stock_movements,
                         sale_number_seq>>]_vars

\* a session whose cart is empty has been told to add a medicine, after a
\* sale was recorded
C15_Witness ==
  \E c \in Clients :
     /\ toast[c] = "Add at least one medicine to the sale"
     /\ saleItems[c] = <<>>
     /\ status[c] = "success"
     /\ Len(sales) >= 1

\* C16: a step that changes the selling price of a medicine leaves the
\* unit_price and total_price of every sale_items row and the total_amount of
\* every sales row as they were.
C16_UnitPriceIsSnapshot ==
  [][(\E m \in DOMAIN medicines : medicines'[m].selling_price # medicines[m].selling_price)
     => /\ Len(sale_items') = Len(sale_items)
        /\ \A i \in 1..Len(sale_items) :
             /\ sale_items'[i].unit_price = sale_items[i].unit_price
             /\ sale_items'[i].total_price = sale_items[i].total_price
        /\ Len(sales') = Len(sales)
        /\ \A i \in 1..Len(sales) : sales'[i].total_amount = sales[i].total_amount]_vars

\* m1 was sold at 50 and is now priced 60; the line and the total still say 50
C16_Witness ==
  /\ medicines["m1"].selling_price = 60
  /\ \E c \in Clients : toast[c] = "Medicine updated"
  /\ \E i \in 1..Len(sale_items) :
       /\ sale_items[i].medicine_id = "m1"
       /\ sale_items[i].unit_price = SellingPrice("m1")
       /\ sale_items[i].total_price = sale_items[i].quantity * SellingPrice("m1")
       /\ sales[sale_items[i].sale_id].total_amount = LinesTotal(sale_items, sale_items[i].sale_id)

\* C17: the stock movement log only grows: every step keeps every row of
\* stock_movements, unchanged and in place, through sales, medicine edits and
\* the removal of a medicine.
C17_MovementsAppendOnly ==
  [][/\ Len(stock_movements') >= Len(stock_movements)
     /\ \A j \in 1..Len(stock_movements) : stock_movements'[j] = stock_movements[j]]_vars

\* m1 has stock movements, was edited, and its removal was then requested
C17_Witness ==
  /\ \E j \in 1..Len(stock_movements) : stock_movements[j].medicine_id = "m1"
  /\ medicines["m1"].selling_price # SellingPrice("m1")
  /\ \E c \in Clients : toast[c] = "Medicine removed"

\* C18: a sale is never updated after creation: every step keeps every row of
\* sales and of sale_items, unchanged and in place.
C18_SalesNeverUpdated ==
  [][/\ Len(sales') >= Len(sales)
     /\ \A i \in 1..Len(sales) : sales'[i] = sales[i]
     /\ Len(sale_items') >= Len(sale_items)
     /\ \A i \in 1..Len(sale_items) : sale_items'[i] = sale_items[i]]_vars

\* two sales are recorded, and the removal of the medicine they sold was
\* requested after the second
C18_Witness ==
  /\ Len(sales) = 2
  /\ Len(sale_items) = 2
  /\ \A i \in 1..Len(sale_items) : sale_items[i].medicine_id = "m1"
  /\ \E c \in Clients : toast[c] = "Medicine removed"
  /\ \A c \in Clients : pc[c] = "idle"

\* C19: every stored prescription stays in the table with the fields it was
\* stored with: no step changes or removes a row of prescriptions.
C19_PrescriptionsImmutable ==
  [][/\ Len(prescriptions') >= Len(prescriptions)
     /\ \A i \in 1..Len(prescriptions) : prescriptions'[i] = prescriptions[i]]_vars

\* the two sessions have each stored a prescription, and a later insert with
\* the number of the first one was rejected
C19_Witness ==
  /\ Len(prescriptions) = 2
  /\ prescriptions[1].created_by # prescriptions[2].created_by
  /\ \E c \in Clients :
       /\ toast[c] = "duplicate prescription_number"
       /\ trim(rxForm[c]) = prescriptions[1].prescription_number
       /\ Uid(c) # prescriptions[1].created_by

\* C20: no two sales rows carry the same prescription reference.
C20_OneSalePerPrescription ==
  \A i, k \in 1..Len(sales) :
     (sales[i].prescription_id # NULL
      /\ sales[i].prescription_id = sales[k].prescription_id) => i = k

\* medicine m is referenced by a sale_items row or a stock_movements row
Referenced(m) ==
  \/ \E i \in 1..Len(sale_items) : sale_items[i].medicine_id = m
  \/ \E j \in 1..Len(stock_movements) : stock_movements[j].medicine_id = m

C24_NoPartialCategory ==
  [][\A c \in Clients :
       (invPc[c] = "upsert" /\ invPc'[c] = "idle" /\ toast'[c] = "request failed"
        /\ values[c].categoryId = "" /\ trim(values[c].newCategoryName) # <<>>)
       => ~CategoryNameTaken(medicine_categories', trim(values[c].newCategoryName))]_vars

\* C29: a remove-medicine action that reports "Medicine removed" has removed
\* a medicine from the medicines table.
C29_RemovedMeansGone ==
  [][\A c \in Clients :
       (toast'[c] # toast[c] /\ toast'[c] = "Medicine removed")
       => \E m \in DOMAIN medicines : m \notin DOMAIN medicines']_vars

\* the form input the claim calls invalid
Rejectable(input) ==
  \/ input.unitPrice < 0
  \/ input.sellingPrice < 0
  \/ input.quantity < 0
  \/ input.reorderLevel < 0
  \/ input.expiryDate = <<>>

\* C22: a medicine form with a negative unit price, selling price, quantity
\* or reorder level, or with an empty expiry date, is rejected before any
\* request: a step of the client on such a form (a submit, which marks the
\* fields in error) starts no mutation and leaves medicine_categories and
\* medicines as they were.
C22_InvalidFormRejected ==
  [][\A c \in Clients :
       (/\ Rejectable(formInput[c])
        /\ invPc[c] = "idle"
        /\ formInput'[c] = formInput[c]
        /\ editingMedicine'[c] = editingMedicine[c]
        /\ (formErrors'[c] # formErrors[c] \/ invPc'[c] # invPc[c]))
       => /\ invPc'[c] = "idle"
          /\ medicine_categories' = medicine_categories
          /\ medicines' = medicines]_vars

\* the edit of m1 with a new category typed in and a negative quantity was
\* submitted and rejected: the quantity field is in error, nothing is stored
C22_Witness ==
  \E c \in Clients :
     /\ editingMedicine[c].id = "m1"
     /\ formInput[c].newCategoryName # <<>>
     /\ formErrors[c] = {"quantity"}
     /\ medicine_categories = <<>>
     /\ medicines["m1"].quantity = OpeningQuantity("m1")

\* C26: a save of the edit dialog in which the quantity field still holds
\* the quantity the dialog was loaded with leaves the quantity of the
\* medicine as it is in the table, so units sold in between stay deducted.
C26_NoLostStockUpdate ==
  [][\A c \in Clients :
       (invPc[c] = "upsert" /\ toast'[c] = "Medicine updated" /\ invPc'[c] = "idle"
        /\ editingMedicine[c].id # NULL
        /\ values[c].quantity = editingMedicine[c].quantity)
       => medicines'[values[c].id].quantity = medicines[values[c].id].quantity]_vars

\* C23: the row a user's request writes carries that user's id: the sale
\* in served_by, the prescription in created_by, and each stock movement of
\* the sale in created_by, which is also the served_by of its sale; none of
\* them is empty or the id of the other user.
C23_ActingIdentityStored ==
  [][/\ \A c \in Clients :
          (pc[c] = "insertSale" /\ pc'[c] = "insertItems")
          => /\ Len(sales') = Len(sales) + 1
             /\ sales'[Len(sales')].served_by = Uid(c)
     /\ \A c \in Clients :
          (pc[c] = "insertItems" /\ pc'[c] # "insertItems")
          => \A j \in (Len(stock_movements) + 1)..Len(stock_movements') :
                /\ stock_movements'[j].created_by = Uid(c)
                /\ stock_movements'[j].created_by
                     = sales[stock_movements'[j].reference_id].served_by
     /\ \A c \in Clients :
          (Len(prescriptions') > Len(prescriptions)
           /\ (toast'[c] # toast[c] \/ rxForm'[c] # rxForm[c]))
          => prescriptions'[Len(prescriptions')].created_by = Uid(c)
     /\ \A i \in 1..Len(sales') : sales'[i].served_by # NULL
     /\ \A j \in 1..Len(stock_movements') : stock_movements'[j].created_by # NULL
     /\ \A k \in 1..Len(prescriptions') : prescriptions'[k].created_by # NULL]_vars

\* each user has a sale and its movement under their own id, and the
\* prescription written by the second user is under that user's id
C23_Witness ==
  /\ \A c \in Clients :
        \E i \in 1..Len(sales), j \in 1..Len(stock_movements) :
           /\ sales[i].served_by = Uid(c)
           /\ stock_movements[j].reference_id = i
           /\ stock_movements[j].created_by = Uid(c)
  /\ \E k \in 1..Len(prescriptions) :
        /\ prescriptions[k].created_by = Uid("c2")
        /\ prescriptions[k].prescription_number # <<"RX", "0", "100">>

RECURSIVE MovedOut(_, _)
\* the units of medicine m in the 'out' rows of a stock_movements table
MovedOut(rows, m) ==
  IF rows = <<>> THEN 0
  ELSE (IF Head(rows).medicine_id = m /\ Head(rows).movement_type = "out"
        THEN Head(rows).quantity ELSE 0)
       + MovedOut(Tail(rows), m)

\* C25: in every state the quantity of each medicine is its opening
\* quantity less the units of its 'out' stock movements.
C25_LedgerReconciles ==
  \A m \in Medicines :
     medicines[m].quantity = OpeningQuantity(m) - MovedOut(stock_movements, m)

\* C27: a cart has at most one line per medicine, and each line holds at
\* least 1 unit and at most the quantity listed for its medicine.
C27_CartInvariant ==
  \A c \in Clients : \A i \in 1..Len(saleItems[c]) :
     LET line == saleItems[c][i]
     IN /\ \A j \in 1..Len(saleItems[c]) :
             saleItems[c][j].medicineId = line.medicineId => j = i
        /\ line.quantity >= 1 * Halves
        /\ line.quantity <= medicinesQuery[c][line.medicineId].quantity * Halves

\* C28: the step in which a submitted sale fails leaves the cart and the
\* form of that session as they are, and the step in which it succeeds
\* empties the cart and puts the form back to its defaults.
C28_CartAroundSubmission ==
  [][\A c \in Clients :
       /\ (status'[c] = "error" /\ status[c] # "error")
          => (saleItems'[c] = saleItems[c] /\ form'[c] = form[c])
       /\ (status'[c] = "success" /\ status[c] # "success")
          => (saleItems'[c] = <<>> /\ form'[c] = "")]_vars

\* one session's sale failed after its header was stored and its cart and
\* prescription choice are still there; the other session's sale succeeded
C28_Witness ==
  \E c, d \in Clients :
     /\ status[c] = "error"
     /\ lastError[c] = "request failed"
     /\ saleItems[c] # <<>>
     /\ form[c] # ""
     /\ status[d] = "success"
     /\ saleItems[d] = <<>>
     /\ Len(sales) = 2
     /\ Len(sale_items) = 1

====
